---- MODULE Spec2Model ----
(***************************************************************************)
(* The artwork upload flow of Exhibit (guide/04-POSTING-AND-UPLOAD.md):    *)
(* the storage client (lib/storage.ts), the image processor                *)
(* (lib/image-processor.ts), the upload routes (routes/upload.ts) and the  *)
(* artwork routes (routes/artworks.ts), the upload hook                    *)
(* (hooks/use-upload.ts) and the posting form                              *)
(* (components/post-artwork-form.tsx), with the object store and the users *)
(* as the environment.                                                     *)
(***************************************************************************)
EXTENDS Integers, Sequences, FiniteSets, TLC

(***************************************************************************)
(* Bounds of the model.                                                    *)
(***************************************************************************)
\* Date.now() never advances past MaxNow (milliseconds), and steps by single
\* milliseconds at most MaxMs times between two longer waits.
MaxNow == 300001
MaxMs == 1
\* At most MaxTickets upload URLs are issued.
MaxTickets == 2
\* At most MaxCalls process-upload requests are started.
MaxCalls == 2
\* At most MaxArtworks artwork records are stored at a time.
MaxArtworks == 1
\* uploadImage is called at most MaxUploads times.
MaxUploads == 2
\* The form sends at most MaxPosts create-artwork requests.
MaxPosts == 1

(***************************************************************************)
(* Program constants.                                                      *)
(***************************************************************************)
\* storage.ts: getSignedUrl(..., { expiresIn: 300 }), seconds.
ExpiresIn == 300
\* upload.ts: the /request-upload response's expiresIn: 300, seconds.
ReportedExpiresIn == 300
\* image-processor.ts: buffer.length > 50 * 1024 * 1024; upload.ts: z.number().max(...)
MaxFileSize == 50 * 1024 * 1024
\* image-processor.ts: metadata.width > 8000, metadata.height > 8000
MaxDimension == 8000
\* image-processor.ts: .resize(400, 400, { fit: 'cover', position: 'center' })
ThumbSize == 400
\* image-processor.ts: .resize(1200, null, { fit: 'inside', withoutEnlargement: true })
MediumWidth == 1200
\* image-processor.ts: .resize(32, 32, { fit: 'inside' })
BlurSize == 32
\* image-processor.ts: encode(data, width, height, 4, 4)
BlurComponents == 4
\* upload.ts: validTypes of /request-upload
validTypes == {"image/jpeg", "image/png", "image/webp", "image/tiff"}
\* image-processor.ts: validFormats of validateImage
validFormats == {"jpeg", "png", "webp", "tiff"}
\* env.CDN_URL
CDN_URL == "https://cdn.exhibit.com"

(***************************************************************************)
(* The environment's inputs.                                               *)
(***************************************************************************)
\* Authenticated users (c.get('userId')); u1 is an artist, u2 is not.
Users == {"u1", "u2"}
isArtist(userId) == userId = "u1"
\* File names a client declares.
FileNames == {"a", "a-thumb"}
\* Content types a client declares.
ContentTypes == {"image/jpeg", "image/tiff", "application/pdf"}
\* File sizes a client declares.
FileSizes == {4000000, MaxFileSize, MaxFileSize + 1}

\* An absent value (undefined / null).
None == [none |-> TRUE]

(***************************************************************************)
(* Image bytes.  A buffer is described by what the decoders read from it:  *)
(*   format  the decoder sharp picks from the content ("unknown": sharp    *)
(*           cannot read the header at all and metadata() rejects;         *)
(*           "none": metadata() resolves without a format),                *)
(*   width, height  the pixel grid the header declares,                    *)
(*   length  the number of bytes,                                          *)
(*   intact  whether the pixel data decodes in full.                       *)
(***************************************************************************)
Formats == validFormats \cup {"gif", "none", "unknown"}
Image(f, w, h, n, i) == [format |-> f, width |-> w, height |-> h, length |-> n, intact |-> i]

\* The buffers clients upload in the full flow.
Images ==
    { Image("jpeg", 3000, 2000, 4000000, TRUE),
      Image("none", 300, 200, 4000000, TRUE),
      Image("unknown", 0, 0, 4000000, FALSE) }

\* The buffers of the image-processing specification.
Dims == {1, 399, 400, 1200, 1201, 2000, 3000, 8000, 8001}
Lengths == {4000000, MaxFileSize + 1}
AllImages ==
    { Image(f, w, h, n, i) : f \in Formats \ {"unknown"}, w \in Dims, h \in Dims,
                             n \in Lengths, i \in BOOLEAN }
    \cup { Image("unknown", 0, 0, n, FALSE) : n \in Lengths }

VARIABLES
    now,        \* Date.now()
    tickets,    \* the upload URLs issued so far, in order of issue
    upReq,      \* the last /request-upload exchange: request, response, storage accesses
    storage,    \* the bucket: object key -> bytes
    pc,         \* per /process-upload call: the await the handler is at
    fileKey,    \* per call: the fileKey of the request body
    imageBuffer,\* per call: the downloaded buffer
    processed,  \* per call: the ProcessedImage
    ops,        \* per call: the storage operations the handler has issued
    resp,       \* per call: the HTTP response
    finishedAt, \* per call: Date.now() when the response was sent
    artworks,   \* db.artwork: the stored records
    artResp,    \* the status of the last response of the artwork routes
    artReq,     \* the last request to the artwork routes
    caller,     \* per call: c.get('userId') of the request
    hook,       \* useUpload: isUploading and the uploadImage call in progress
    form,       \* PostArtworkForm: step and uploadedImage
    posts       \* the POST /api/artworks requests the form has sent

vars == <<now, tickets, upReq, storage, pc, fileKey, imageBuffer, processed, ops,
          resp, finishedAt, artworks, artResp, artReq, caller, hook, form, posts>>

\* The state of the server and the bucket, and the state of the web client.
serverVars == <<now, tickets, upReq, storage, pc, fileKey, imageBuffer, processed, ops,
                resp, finishedAt, artworks, artResp, artReq, caller>>
clientVars == <<hook, form, posts>>

\* The /process-upload calls, in the order they start.
Calls == 1 .. MaxCalls

(***************************************************************************)
(* lib/storage.ts                                                          *)
(***************************************************************************)
\* `uploads/${userId}/${Date.now()}-${fileName}`
FileKeyOf(userId, at, fileName) ==
    "uploads/" \o userId \o "/" \o ToString(at) \o "-" \o fileName

\* Mutation of generateUploadUrl: expiresIn left out, so the grant gets the
\* presigner's default lifetime of 900 seconds.
generateUploadUrlDefaultExpiry(fileName, contentType, userId) ==
    LET key == FileKeyOf(userId, now, fileName)
    IN  [ fileKey   |-> key,
          uploadUrl |-> [Key |-> key, ContentType |-> contentType,
                         Expires |-> now + 900 * 1000] ]

\* generateUploadUrl: the key and the presigned PUT grant for it.
generateUploadUrl(fileName, contentType, userId) ==
    LET key == FileKeyOf(userId, now, fileName)
    IN  [ fileKey   |-> key,
          uploadUrl |-> [Key |-> key, ContentType |-> contentType,
                         Expires |-> now + ExpiresIn * 1000] ]

\* getPublicUrl: `${env.CDN_URL}/${fileKey}`
getPublicUrl(key) == CDN_URL \o "/" \o key

(***************************************************************************)
(* lib/image-processor.ts                                                  *)
(***************************************************************************)
Max(a, b) == IF a >= b THEN a ELSE b
Min(a, b) == IF a <= b THEN a ELSE b
\* a / b rounded to the nearest integer, at least 1 (a pixel count).
RoundDiv(a, b) == Max(1, (2 * a + b) \div (2 * b))

\* Mutation of ResizeCover: withoutEnlargement set, so a source smaller than the
\* box is only cropped, never scaled up.
ResizeCoverNoEnlargement(srcW, srcH, w, h) ==
    [width |-> Min(srcW, w), height |-> Min(srcH, h)]

\* sharp .resize(w, h, { fit: 'cover', position: 'center' }): scale so that both
\* axes cover the box, then crop the overflow around the center.
ResizeCover(srcW, srcH, w, h) ==
    LET byWidth == srcH * w >= srcW * h      \* the width is the tighter axis
        scaledW == IF byWidth THEN w ELSE RoundDiv(srcW * h, srcH)
        scaledH == IF byWidth THEN RoundDiv(srcH * w, srcW) ELSE h
    IN  [width |-> Min(scaledW, w), height |-> Min(scaledH, h)]

\* Mutation of ResizeInsideWidth: withoutEnlargement left out, so a narrower
\* source is scaled up to the width.
ResizeInsideWidthEnlarging(srcW, srcH, w) ==
    [width |-> w, height |-> RoundDiv(srcH * w, srcW)]

\* Mutation of ResizeInsideWidth: the height is left as it is (the aspect ratio
\* is not kept).
ResizeInsideWidthStretching(srcW, srcH, w) ==
    [width |-> Min(srcW, w), height |-> srcH]

\* sharp .resize(w, null, { fit: 'inside', withoutEnlargement: true }): the width
\* is brought down to w, the height follows; a narrower source is left as it is.
ResizeInsideWidth(srcW, srcH, w) ==
    IF srcW <= w THEN [width |-> srcW, height |-> srcH]
    ELSE [width |-> w, height |-> RoundDiv(srcH * w, srcW)]

\* sharp .resize(w, h, { fit: 'inside' }): the largest size within the box that
\* keeps the aspect ratio (enlarging a smaller source).
ResizeInside(srcW, srcH, w, h) ==
    IF srcW * h >= srcH * w
    THEN [width |-> w, height |-> RoundDiv(srcH * w, srcW)]
    ELSE [width |-> RoundDiv(srcW * h, srcH), height |-> h]

\* The JPEG sharp writes for a pixel grid.  The byte count of the encoding is not
\* modelled: it stands for a length below the size limit.
Jpeg(dims) == Image("jpeg", dims.width, dims.height, dims.width + dims.height, TRUE)

\* The thumbnail: 400x400, square crop.
Thumbnail(buf) == Jpeg(ResizeCover(buf.width, buf.height, ThumbSize, ThumbSize))

\* The medium size: 1200px wide, aspect ratio kept.
Medium(buf) == Jpeg(ResizeInsideWidth(buf.width, buf.height, MediumWidth))

\* The blur hash: 4x4 components of the image reduced to fit 32x32.
BlurHash(buf) ==
    [ components |-> <<BlurComponents, BlurComponents>>,
      grid       |-> ResizeInside(buf.width, buf.height, BlurSize, BlurSize) ]

Throw == [threw |-> TRUE]

\* processImage: the results it can end with for a buffer (Throw: it rejects).
processImage(buf) ==
    LET result == [ original  |-> [width |-> buf.width, height |-> buf.height,
                                   fileSize |-> buf.length],
                    thumbnail |-> Thumbnail(buf),
                    medium    |-> Medium(buf),
                    blurHash  |-> BlurHash(buf) ]
    IN  IF buf.format = "unknown" THEN {Throw}                \* sizeOf / sharp reject
        ELSE IF buf.width = 0 \/ buf.height = 0 THEN {Throw}  \* 'Invalid image dimensions'
        ELSE IF ~buf.intact THEN {Throw}                      \* sharp cannot decode
        ELSE IF buf.format = "none" THEN {Throw, result}      \* sizeOf may not know the type
        ELSE {result}

\* Mutation of validateImage: the dimension checks use >= in place of >.
validateImageInclusive(buf) ==
    IF buf.format = "unknown"
    THEN [valid |-> FALSE, error |-> "Invalid image file"]
    ELSE IF buf.length > MaxFileSize
    THEN [valid |-> FALSE, error |-> "File size exceeds 50MB"]
    ELSE IF buf.width # 0 /\ buf.width >= MaxDimension
    THEN [valid |-> FALSE, error |-> "Image width exceeds 8000px"]
    ELSE IF buf.height # 0 /\ buf.height >= MaxDimension
    THEN [valid |-> FALSE, error |-> "Image height exceeds 8000px"]
    ELSE IF buf.format # "none" /\ buf.format \notin validFormats
    THEN [valid |-> FALSE, error |-> "Unsupported image format"]
    ELSE [valid |-> TRUE, error |-> ""]

\* Mutation of validateImage: the check of buffer.length is left out.
validateImageNoSizeCheck(buf) ==
    IF buf.format = "unknown"
    THEN [valid |-> FALSE, error |-> "Invalid image file"]
    ELSE IF buf.width # 0 /\ buf.width > MaxDimension
    THEN [valid |-> FALSE, error |-> "Image width exceeds 8000px"]
    ELSE IF buf.height # 0 /\ buf.height > MaxDimension
    THEN [valid |-> FALSE, error |-> "Image height exceeds 8000px"]
    ELSE IF buf.format # "none" /\ buf.format \notin validFormats
    THEN [valid |-> FALSE, error |-> "Unsupported image format"]
    ELSE [valid |-> TRUE, error |-> ""]

\* validateImage: { valid, error }.
validateImage(buf) ==
    IF buf.format = "unknown"                    \* sharp(buffer).metadata() rejects
    THEN [valid |-> FALSE, error |-> "Invalid image file"]
    ELSE IF buf.length > MaxFileSize
    THEN [valid |-> FALSE, error |-> "File size exceeds 50MB"]
    ELSE IF buf.width # 0 /\ buf.width > MaxDimension
    THEN [valid |-> FALSE, error |-> "Image width exceeds 8000px"]
    ELSE IF buf.height # 0 /\ buf.height > MaxDimension
    THEN [valid |-> FALSE, error |-> "Image height exceeds 8000px"]
    ELSE IF buf.format # "none" /\ buf.format \notin validFormats
    THEN [valid |-> FALSE, error |-> "Unsupported image format"]
    ELSE [valid |-> TRUE, error |-> ""]

(***************************************************************************)
(* routes/upload.ts: POST /request-upload                                  *)
(***************************************************************************)
\* Mutation of requestUploadSchema: z.number().lt(...) in place of .max(...).
requestUploadSchemaExclusive(fileSize) == fileSize < MaxFileSize

\* requestUploadSchema: fileSize: z.number().max(50 * 1024 * 1024)
requestUploadSchema(fileSize) == fileSize <= MaxFileSize

\* Mutation of ValidContentType: only the presence of a type is checked.
AnyContentType(contentType) == contentType # ""

\* validTypes.includes(contentType)
ValidContentType(contentType) == contentType \in validTypes

\* The ticket a 200 response of /request-upload hands to the client.
Ticket(userId, url) ==
    [ owner |-> userId, fileKey |-> url.fileKey, uploadUrl |-> url.uploadUrl,
      issuedAt |-> now, expiresIn |-> ReportedExpiresIn ]

\* The exchange: what was asked, the status, and the storage accesses made.
Exchange(contentType, fileSize, status, accesses) ==
    [contentType |-> contentType, fileSize |-> fileSize, status |-> status,
     accesses |-> accesses]

RequestUpload(userId, fileName, contentType, fileSize) ==
    /\ UNCHANGED <<caller, artReq, clientVars>>
    /\ \/ /\ ~requestUploadSchema(fileSize)           \* zValidator answers 400
          /\ upReq' = Exchange(contentType, fileSize, 400, 0)
          /\ UNCHANGED tickets
       \/ /\ requestUploadSchema(fileSize)
          /\ ~ValidContentType(contentType)            \* 'Invalid file type'
          /\ upReq' = Exchange(contentType, fileSize, 400, 0)
          /\ UNCHANGED tickets
       \/ /\ requestUploadSchema(fileSize)
          /\ ValidContentType(contentType)
          /\ Len(tickets) < MaxTickets
          /\ tickets' = Append(tickets,
                 Ticket(userId, generateUploadUrl(fileName, contentType, userId)))
          /\ upReq' = Exchange(contentType, fileSize, 200, 1)
    /\ UNCHANGED <<now, storage, pc, fileKey, imageBuffer, processed, ops, resp,
                   finishedAt, artworks, artResp>>

(***************************************************************************)
(* The environment: the clock, and a client's PUT to a presigned URL       *)
(* (hooks/use-upload.ts, step 2).                                          *)
(***************************************************************************)
Tick(d) ==
    /\ UNCHANGED <<caller, artReq, clientVars>>
    /\ now + d <= MaxNow
    /\ d = 1 => now % (ExpiresIn * 1000) < MaxMs
    /\ now' = now + d
    /\ UNCHANGED <<tickets, upReq, storage, pc, fileKey, imageBuffer, processed, ops,
                   resp, finishedAt, artworks, artResp>>

\* The bucket accepts a PUT to a presigned URL until the URL expires.
ClientPut(i, img) ==
    /\ UNCHANGED <<caller, artReq, clientVars>>
    /\ i \in 1 .. Len(tickets)
    /\ now <= tickets[i].uploadUrl.Expires
    /\ storage' = (tickets[i].uploadUrl.Key :> img) @@ storage
    /\ UNCHANGED <<now, tickets, upReq, pc, fileKey, imageBuffer, processed, ops,
                   resp, finishedAt, artworks, artResp>>
(***************************************************************************)
(* The bucket as the server reaches it.  downloadFromS3 and uploadToS3 are *)
(* called by the route and defined nowhere in the guide; they are taken to *)
(* be GetObject / PutObject sent as deleteFile sends DeleteObject: the     *)
(* promise rejects when the object is missing or the request fails.        *)
(***************************************************************************)
StorageOp(op, key, ok) == [op |-> op, key |-> key, ok |-> ok]

\* The outcomes of get(key): the bytes, or Throw.
downloadFromS3(key) ==
    IF key \in DOMAIN storage THEN {storage[key], Throw} ELSE {Throw}

\* The outcomes of put(key, bytes, contentType): done, or a rejection.
uploadToS3Outcomes == {"ok", "error"}

(***************************************************************************)
(* routes/upload.ts: POST /process-upload, one action per await.           *)
(***************************************************************************)
\* Mutation of thumbnailKey: the key carries the number of the request.
thumbnailKeyNumbered(key) ==
    key \o "-thumb-" \o ToString(Cardinality({c \in Calls : fileKey[c] # ""}))

thumbnailKey(key) == key \o "-thumb"

\* Mutation of mediumKey: the medium size gets the thumbnail's suffix.
mediumKeyAsThumb(key) == key \o "-thumb"

\* Mutation of mediumKey: the medium size is written over the original.
mediumKeyInPlace(key) == key

mediumKey(key) == key \o "-medium"

NoBody == [none |-> TRUE]
Response(status, error, body) == [status |-> status, error |-> error, body |-> body]
NoResponse == Response(0, "", NoBody)
\* Hono's answer to a handler that threw.
InternalServerError == Response(500, "Internal Server Error", NoBody)

\* The body of the 200 response.
ResultBody(key, p) ==
    [ imageUrl     |-> getPublicUrl(key),
      thumbnailUrl |-> getPublicUrl(thumbnailKey(key)),
      mediumUrl    |-> getPublicUrl(mediumKey(key)),
      blurHash     |-> p.blurHash,
      width        |-> p.original.width,
      height       |-> p.original.height,
      fileSize     |-> p.original.fileSize ]

\* The keys a client may name: those it was given, and one that was never issued.
RequestKeys ==
    {tickets[i].fileKey : i \in 1 .. Len(tickets)} \cup {"uploads/u2/0-missing"}

\* The handler answers and ends.
Finish(c, r) ==
    /\ resp' = [resp EXCEPT ![c] = r]
    /\ finishedAt' = [finishedAt EXCEPT ![c] = now]
    /\ pc' = [pc EXCEPT ![c] = "done"]

Issue(c, op) == ops' = [ops EXCEPT ![c] = Append(@, op)]

\* The request arrives: const { fileKey } = c.req.valid('json')
StartProcess(c, userId, key) ==
    /\ pc[c] = "idle"
    /\ caller' = [caller EXCEPT ![c] = userId]
    /\ UNCHANGED <<artReq, clientVars>>
    /\ \A d \in Calls : d < c => pc[d] # "idle"
    /\ fileKey' = [fileKey EXCEPT ![c] = key]
    /\ pc' = [pc EXCEPT ![c] = "download"]
    /\ UNCHANGED <<now, tickets, upReq, storage, imageBuffer, processed, ops, resp,
                   finishedAt, artworks, artResp>>

\* Mutation of Download: the bytes are taken from the request, not from storage.
DownloadFromRequest(c) ==
    /\ UNCHANGED <<caller, artReq, clientVars>>
    /\ pc[c] = "download"
    /\ \E got \in Images \cup {Throw} :
          /\ Issue(c, StorageOp("get", fileKey[c], got # Throw))
          /\ IF got = Throw
             THEN Finish(c, InternalServerError) /\ UNCHANGED imageBuffer
             ELSE /\ imageBuffer' = [imageBuffer EXCEPT ![c] = got]
                  /\ pc' = [pc EXCEPT ![c] = "validate"]
                  /\ UNCHANGED <<resp, finishedAt>>
    /\ UNCHANGED <<now, tickets, upReq, storage, fileKey, processed, artworks, artResp>>

\* Mutation of Download: a failed get is caught and the handler goes on with an
\* empty buffer.
DownloadIgnoringFailure(c) ==
    /\ UNCHANGED <<caller, artReq, clientVars>>
    /\ pc[c] = "download"
    /\ \E got \in downloadFromS3(fileKey[c]) :
          /\ Issue(c, StorageOp("get", fileKey[c], got # Throw))
          /\ imageBuffer' = [imageBuffer EXCEPT ![c] =
                 IF got = Throw THEN Image("unknown", 0, 0, 0, FALSE) ELSE got]
          /\ pc' = [pc EXCEPT ![c] = "validate"]
          /\ UNCHANGED <<resp, finishedAt>>
    /\ UNCHANGED <<now, tickets, upReq, storage, fileKey, processed, artworks, artResp>>

\* const imageBuffer = await downloadFromS3(fileKey)
Download(c) ==
    /\ UNCHANGED <<caller, artReq, clientVars>>
    /\ pc[c] = "download"
    /\ \E got \in downloadFromS3(fileKey[c]) :
          /\ Issue(c, StorageOp("get", fileKey[c], got # Throw))
          /\ IF got = Throw
             THEN Finish(c, InternalServerError) /\ UNCHANGED imageBuffer
             ELSE /\ imageBuffer' = [imageBuffer EXCEPT ![c] = got]
                  /\ pc' = [pc EXCEPT ![c] = "validate"]
                  /\ UNCHANGED <<resp, finishedAt>>
    /\ UNCHANGED <<now, tickets, upReq, storage, fileKey, processed, artworks, artResp>>

\* Mutation of Validate: the result of the validation is not looked at.
ValidateIgnoringResult(c) ==
    /\ UNCHANGED <<caller, artReq, clientVars>>
    /\ pc[c] = "validate"
    /\ pc' = [pc EXCEPT ![c] = "process"]
    /\ UNCHANGED <<now, tickets, upReq, storage, fileKey, imageBuffer, processed, ops,
                   resp, finishedAt, artworks, artResp>>

\* const validation = await validateImage(imageBuffer)
Validate(c) ==
    /\ UNCHANGED <<caller, artReq, clientVars>>
    /\ pc[c] = "validate"
    /\ LET validation == validateImage(imageBuffer[c])
       IN  IF ~validation.valid
           THEN Finish(c, Response(400, validation.error, NoBody))
           ELSE pc' = [pc EXCEPT ![c] = "process"] /\ UNCHANGED <<resp, finishedAt>>
    /\ UNCHANGED <<now, tickets, upReq, storage, fileKey, imageBuffer, processed, ops,
                   artworks, artResp>>

\* Mutation of Process: a rejection of processImage is caught and the handler
\* goes on to the uploads with the thumbnail alone.
ProcessPartial(c) ==
    /\ UNCHANGED <<caller, artReq, clientVars>>
    /\ pc[c] = "process"
    /\ \E p \in processImage(imageBuffer[c]) :
          /\ processed' = [processed EXCEPT ![c] =
                 IF p = Throw
                 THEN [thumbnail |-> Image("jpeg", ThumbSize, ThumbSize, 2 * ThumbSize, TRUE)]
                 ELSE p]
          /\ pc' = [pc EXCEPT ![c] = "putThumb"]
    /\ UNCHANGED <<now, tickets, upReq, storage, fileKey, imageBuffer, ops, resp,
                   finishedAt, artworks, artResp>>

\* const processed = await processImage(imageBuffer)
Process(c) ==
    /\ UNCHANGED <<caller, artReq, clientVars>>
    /\ pc[c] = "process"
    /\ \E p \in processImage(imageBuffer[c]) :
          IF p = Throw
          THEN Finish(c, InternalServerError) /\ UNCHANGED processed
          ELSE /\ processed' = [processed EXCEPT ![c] = p]
               /\ pc' = [pc EXCEPT ![c] = "putThumb"]
               /\ UNCHANGED <<resp, finishedAt>>
    /\ UNCHANGED <<now, tickets, upReq, storage, fileKey, imageBuffer, ops, artworks,
                   artResp>>

\* Mutation of Upload: a rejected put is issued again, once.
UploadRetrying(c, key, bytes, outcome, nextPc, nextResp) ==
    /\ ops' = [ops EXCEPT ![c] = Append(@, [op |-> "put", key |-> key, ok |-> outcome = "ok"])]
    /\ IF outcome = "ok"
       THEN /\ storage' = (key :> bytes) @@ storage
            /\ IF nextResp = [status |-> 0, error |-> "", body |-> [none |-> TRUE]]
               THEN pc' = [pc EXCEPT ![c] = nextPc] /\ UNCHANGED <<resp, finishedAt>>
               ELSE /\ resp' = [resp EXCEPT ![c] = nextResp]
                    /\ finishedAt' = [finishedAt EXCEPT ![c] = now]
                    /\ pc' = [pc EXCEPT ![c] = "done"]
       ELSE IF Len(ops[c]) < 3
            THEN UNCHANGED <<storage, pc, resp, finishedAt>>
            ELSE /\ resp' = [resp EXCEPT ![c] = [status |-> 500, error |-> "Internal Server Error",
                                                 body |-> [none |-> TRUE]]]
                 /\ finishedAt' = [finishedAt EXCEPT ![c] = now]
                 /\ pc' = [pc EXCEPT ![c] = "done"]
                 /\ UNCHANGED storage

\* Mutation of Upload: the rejection is caught and the handler goes on.
UploadSwallowingError(c, key, bytes, outcome, nextPc, nextResp) ==
    /\ ops' = [ops EXCEPT ![c] = Append(@, [op |-> "put", key |-> key, ok |-> outcome = "ok"])]
    /\ storage' = IF outcome = "ok" THEN (key :> bytes) @@ storage ELSE storage
    /\ IF nextResp = [status |-> 0, error |-> "", body |-> [none |-> TRUE]]
       THEN pc' = [pc EXCEPT ![c] = nextPc] /\ UNCHANGED <<resp, finishedAt>>
       ELSE /\ resp' = [resp EXCEPT ![c] = nextResp]
            /\ finishedAt' = [finishedAt EXCEPT ![c] = now]
            /\ pc' = [pc EXCEPT ![c] = "done"]

\* await uploadToS3(key, bytes, 'image/jpeg'): on a rejection the handler throws;
\* otherwise it goes on to `next` (a pc, or the 200 response).
Upload(c, key, bytes, outcome, nextPc, nextResp) ==
    /\ Issue(c, StorageOp("put", key, outcome = "ok"))
    /\ IF outcome = "ok"
       THEN /\ storage' = (key :> bytes) @@ storage
            /\ IF nextResp = NoResponse
               THEN pc' = [pc EXCEPT ![c] = nextPc] /\ UNCHANGED <<resp, finishedAt>>
               ELSE Finish(c, nextResp)
       ELSE /\ Finish(c, InternalServerError)
            /\ UNCHANGED storage

\* Mutation of PutThumb: the thumbnail put is started but not awaited.
PutThumbUnawaited(c) ==
    /\ UNCHANGED <<caller, artReq, clientVars>>
    /\ pc[c] = "putThumb"
    /\ pc' = [pc EXCEPT ![c] = "putMedium"]
    /\ UNCHANGED <<now, tickets, upReq, storage, fileKey, imageBuffer, processed, ops,
                   resp, finishedAt, artworks, artResp>>

\* await uploadToS3(thumbnailKey, processed.thumbnail, 'image/jpeg')
PutThumb(c) ==
    /\ UNCHANGED <<caller, artReq, clientVars>>
    /\ pc[c] = "putThumb"
    /\ \E outcome \in uploadToS3Outcomes :
          Upload(c, thumbnailKey(fileKey[c]), processed[c].thumbnail, outcome,
                 "putMedium", NoResponse)
    /\ UNCHANGED <<now, tickets, upReq, fileKey, imageBuffer, processed, artworks,
                   artResp>>

\* await uploadToS3(mediumKey, processed.medium, 'image/jpeg'); return c.json({...})
PutMedium(c) ==
    /\ UNCHANGED <<caller, artReq, clientVars>>
    /\ pc[c] = "putMedium"
    /\ \E outcome \in uploadToS3Outcomes :
          Upload(c, mediumKey(fileKey[c]), processed[c].medium, outcome,
                 "done", Response(200, "", ResultBody(fileKey[c], processed[c])))
    /\ UNCHANGED <<now, tickets, upReq, fileKey, imageBuffer, processed, artworks,
                   artResp>>
(***************************************************************************)
(* routes/artworks.ts: POST /api/artworks                                  *)
(***************************************************************************)
\* The bodies /process-upload has answered with so far (what a client holds as
\* uploadedImage).
ReturnedBodies == {resp[c].body : c \in {d \in Calls : resp[d].status = 200}}

\* Image data that satisfies createArtworkSchema and came from no upload.
ForgedBody ==
    [ imageUrl     |-> "https://example.com/image.jpg",
      thumbnailUrl |-> "https://example.com/thumb.jpg",
      mediumUrl    |-> "https://example.com/medium.jpg",
      blurHash     |-> None,
      width        |-> 1,
      height       |-> 1,
      fileSize     |-> 1 ]

\* db.artwork.create({ data: { ..., artistId: userId } })
ArtworkRecord(id, userId, data) ==
    [ id |-> id, artistId |-> userId,
      imageUrl |-> data.imageUrl, thumbnailUrl |-> data.thumbnailUrl,
      mediumUrl |-> data.mediumUrl, blurHash |-> data.blurHash,
      width |-> data.width, height |-> data.height, fileSize |-> data.fileSize ]

\* A request to the artwork routes: the method, c.get('userId'), c.req.param('id').
ArtworkRequest(method, userId, id) == [method |-> method, userId |-> userId, id |-> id]
NoRequest == ArtworkRequest("", "", 0)

\* The id the database gives a new record: one no stored record has.
NewId == CHOOSE i \in 1 .. MaxArtworks : \A a \in artworks : a.id # i

CreateArtwork(userId, data) ==
    /\ UNCHANGED <<caller, clientVars>>
    /\ artReq' = ArtworkRequest("POST", userId, 0)
    /\ IF ~isArtist(userId)
       THEN /\ artResp' = 403                 \* 'Only artists can post artwork'
            /\ UNCHANGED artworks
       ELSE /\ Cardinality(artworks) < MaxArtworks
            /\ artworks' = artworks \cup {ArtworkRecord(NewId, userId, data)}
            /\ artResp' = 200
    /\ UNCHANGED <<now, tickets, upReq, storage, pc, fileKey, imageBuffer, processed,
                   ops, resp, finishedAt>>

(***************************************************************************)
(* routes/artworks.ts: PATCH /api/artworks/:id, DELETE /api/artworks/:id   *)
(***************************************************************************)
\* The ids a request can name: those of stored records, and one of none.
ArtworkIds == 1 .. MaxArtworks + 1

\* The image fields of createArtworkSchema.
SchemaFields ==
    {"imageUrl", "thumbnailUrl", "mediumUrl", "blurHash", "width", "height", "fileSize"}

\* JSON bodies of a PATCH: new dimensions, without and with an artistId.
PatchBodies ==
    { [width |-> 2], [height |-> 2, artistId |-> "u2"] }

\* Mutation of createArtworkSchemaPartial: unknown keys are passed through.
createArtworkSchemaPartialPassthrough(raw) == raw

\* createArtworkSchema.partial(): every field optional, unknown keys stripped.
createArtworkSchemaPartial(raw) ==
    [field \in DOMAIN raw \cap SchemaFields |-> raw[field]]

\* db.artwork.findUnique({ where: { id } })
findUnique(id) == {a \in artworks : a.id = id}

\* The ownership check both routes make before they write.
Authorize(userId, id, write) ==
    IF findUnique(id) = {}
    THEN artResp' = 404 /\ UNCHANGED artworks         \* 'Artwork not found'
    ELSE LET existing == CHOOSE a \in findUnique(id) : TRUE
         IN  IF existing.artistId # userId
             THEN artResp' = 403 /\ UNCHANGED artworks \* 'Not authorized'
             ELSE /\ artworks' = write[existing]
                  /\ artResp' = 200

\* artworkRouter.patch('/:id'): db.artwork.update({ where: { id }, data: { ...data } })
UpdateArtwork(userId, id, raw) ==
    /\ artReq' = ArtworkRequest("PATCH", userId, id)
    /\ LET data == createArtworkSchemaPartial(raw)
       IN  Authorize(userId, id, [a \in artworks |-> (artworks \ {a}) \cup {data @@ a}])
    /\ UNCHANGED <<now, tickets, upReq, storage, pc, fileKey, imageBuffer, processed,
                   ops, resp, finishedAt, caller, clientVars>>

\* artworkRouter.delete('/:id'): db.artwork.delete({ where: { id } })
DeleteArtwork(userId, id) ==
    /\ artReq' = ArtworkRequest("DELETE", userId, id)
    /\ Authorize(userId, id, [a \in artworks |-> artworks \ {a}])
    /\ UNCHANGED <<now, tickets, upReq, storage, pc, fileKey, imageBuffer, processed,
                   ops, resp, finishedAt, caller, clientVars>>

(***************************************************************************)
(* hooks/use-upload.ts: useUpload, one action per await of uploadImage.     *)
(***************************************************************************)
\* How an awaited fetch ends: response.ok, a response that is not ok, or a
\* rejection (of fetch or of response.json()).
FetchOutcomes == {"ok", "notOk", "threw"}

\* The request of the hook, in the order the code sends them.
HookRequests == <<"request-upload", "put", "process-upload">>

\* The bodies a 200 of /process-upload can carry (UploadResult).
UploadResults ==
    { ResultBody(FileKeyOf("u1", 0, name),
                 CHOOSE p \in processImage(Image("jpeg", 3000, 2000, 4000000, TRUE)) :
                     p # Throw) : name \in FileNames }

\* useUpload before any uploadImage call.
HookIdle ==
    [ isUploading |-> FALSE, at |-> 0, file |-> "", log |-> <<>>,
      returned |-> None, calls |-> 0 ]

\* fetch(...) of the k-th request is sent.
Sent(k) == [request |-> HookRequests[k], outcome |-> "pending"]

\* The log with the awaited request answered.
Answered(outcome) == [hook.log EXCEPT ![Len(hook.log)].outcome = outcome]

\* uploadImage(file): setIsUploading(true), then the first fetch.
uploadImage(file) ==
    /\ hook.calls < MaxUploads
    /\ hook' = [ isUploading |-> TRUE, at |-> 1, file |-> file, log |-> <<Sent(1)>>,
                 returned |-> None, calls |-> hook.calls + 1 ]

\* Mutation of handleImageUploadReturn: the result is not tested.
handleImageUploadReturnUnchecked(result) ==
    form' = [form EXCEPT !.uploadedImage = result, !.step = 2]

\* PostArtworkForm.handleImageUpload after `await uploadImage(file)`:
\* if (result) { setUploadedImage(result); setStep(2) }
handleImageUploadReturn(result) ==
    form' = IF result # None
            THEN [form EXCEPT !.uploadedImage = result, !.step = 2]
            ELSE form

\* uploadImage returns: `return result` or the catch's `return null`, the
\* finally block, and the caller's continuation.
Return(outcome, result) ==
    /\ hook' = [hook EXCEPT !.isUploading = FALSE, !.at = 0,
                            !.log = Answered(outcome), !.returned = result]
    /\ handleImageUploadReturn(result)

\* Mutation of AwaitFetch: a response that is not ok is not thrown on.
AwaitFetchIgnoringStatus(k, outcome) ==
    /\ hook.at = k
    /\ IF outcome # "threw"
       THEN /\ hook' = [hook EXCEPT !.at = k + 1, !.log = Append(Answered(outcome), Sent(k + 1))]
            /\ UNCHANGED form
       ELSE Return(outcome, None)
    /\ UNCHANGED <<serverVars, posts>>

\* Steps 1 and 2 of uploadImage: the awaited fetch ends; if (!response.ok) throw,
\* otherwise the next fetch is sent.
AwaitFetch(k, outcome) ==
    /\ hook.at = k
    /\ IF outcome = "ok"
       THEN /\ hook' = [hook EXCEPT !.at = k + 1, !.log = Append(Answered(outcome), Sent(k + 1))]
            /\ UNCHANGED form
       ELSE Return(outcome, None)
    /\ UNCHANGED <<serverVars, posts>>

\* Step 3 of uploadImage: the process-upload fetch ends.
AwaitProcess(outcome, result) ==
    /\ hook.at = 3
    /\ Return(outcome, IF outcome = "ok" THEN result ELSE None)
    /\ UNCHANGED <<serverVars, posts>>

(***************************************************************************)
(* components/post-artwork-form.tsx: PostArtworkForm.                      *)
(***************************************************************************)
\* useState(1), useState(null)
FormStart == [step |-> 1, uploadedImage |-> None]

\* What handleSubmit passes on: the fields of postSchema.
FormData == { [title |-> "Untitled", tags |-> "a, b"], [title |-> "Dusk", tags |-> ""] }

\* data.tags.split(',').map((t) => t.trim()).filter(Boolean)
SplitTags(tags) == IF tags = "a, b" THEN <<"a", "b">> ELSE <<>>

\* JSON.stringify({ ...data, ...uploadedImage, tags: ... }): a later spread
\* overrides an earlier one.
CreateBody(data, image) == [tags |-> SplitTags(data.tags)] @@ image @@ data

\* Step 1, the Upload button of ImageUpload (shown while not uploading):
\* handleImageUpload(file) up to its await.
handleImageUpload(file) ==
    /\ form.step = 1
    /\ ~hook.isUploading
    /\ uploadImage(file)
    /\ UNCHANGED <<serverVars, form, posts>>

\* Step 2, Continue: handleSubmit((data) => setStep(3))
Continue ==
    /\ form.step = 2
    /\ form' = [form EXCEPT !.step = 3]
    /\ UNCHANGED <<serverVars, hook, posts>>

\* Steps 2 and 3, Back: setStep(1), setStep(2)
Back ==
    /\ form.step \in {2, 3}
    /\ form' = [form EXCEPT !.step = form.step - 1]
    /\ UNCHANGED <<serverVars, hook, posts>>

\* Step 3, Publish Artwork: handleSubmit(onSubmit)
onSubmit(data) ==
    /\ form.step = 3
    /\ form.uploadedImage # None           \* if (!uploadedImage) return
    /\ Len(posts) < MaxPosts
    /\ posts' = Append(posts, [ step |-> form.step, uploadedImage |-> form.uploadedImage,
                                body |-> CreateBody(data, form.uploadedImage) ])
    /\ UNCHANGED <<serverVars, hook, form>>

ClientNext ==
    \/ \E file \in FileNames : handleImageUpload(file)
    \/ \E k \in {1, 2}, outcome \in FetchOutcomes : AwaitFetch(k, outcome)
    \/ \E outcome \in FetchOutcomes, result \in UploadResults : AwaitProcess(outcome, result)
    \/ Continue
    \/ Back
    \/ \E data \in FormData : onSubmit(data)

\* No /process-upload request has been made, and the page has just been opened.
NoCaller == [c \in Calls |-> ""]
ClientInit ==
    /\ hook = HookIdle
    /\ form = FormStart
    /\ posts = <<>>

(***************************************************************************)
(* The full flow.                                                          *)
(***************************************************************************)
NoObjects == [k \in {} |-> None]

Init ==
    /\ now = 0
    /\ tickets = <<>>
    /\ upReq = Exchange("", 0, 0, 0)
    /\ storage = NoObjects
    /\ pc = [c \in Calls |-> "idle"]
    /\ fileKey = [c \in Calls |-> ""]
    /\ imageBuffer = [c \in Calls |-> None]
    /\ processed = [c \in Calls |-> None]
    /\ ops = [c \in Calls |-> <<>>]
    /\ resp = [c \in Calls |-> NoResponse]
    /\ finishedAt = [c \in Calls |-> 0]
    /\ artworks = {}
    /\ artResp = 0
    /\ artReq = NoRequest
    /\ caller = NoCaller
    /\ ClientInit

\* POST /process-upload, call c, made by one of the signed-in users callers.
ProcessUploadBy(c, callers) ==
    \/ \E userId \in callers, key \in RequestKeys : StartProcess(c, userId, key)
    \/ Download(c)
    \/ Validate(c)
    \/ Process(c)
    \/ PutThumb(c)
    \/ PutMedium(c)

ProcessUpload(c) == ProcessUploadBy(c, Users)

\* The user the tickets of IngestInit were issued to.
Owner == {"u1"}

RequestNext ==
    \/ \E userId \in Users, fileName \in FileNames, contentType \in ContentTypes,
          fileSize \in FileSizes : RequestUpload(userId, fileName, contentType, fileSize)
    \/ Tick(1)

IngestNext ==
    \/ \E i \in 1 .. MaxTickets, img \in Images : ClientPut(i, img)
    \/ \E c \in Calls : ProcessUploadBy(c, Owner)

AnyoneIngestNext ==
    \/ \E i \in 1 .. MaxTickets, img \in Images : ClientPut(i, img)
    \/ \E c \in Calls : ProcessUpload(c)

PostNext ==
    \E userId \in Users, data \in ReturnedBodies \cup {ForgedBody} :
        CreateArtwork(userId, data)

ArtworksNext ==
    \/ PostNext
    \/ \E userId \in Users, id \in ArtworkIds, raw \in PatchBodies :
          UpdateArtwork(userId, id, raw)
    \/ \E userId \in Users, id \in ArtworkIds : DeleteArtwork(userId, id)

Next ==
    \/ RequestNext
    \/ (\E d \in {1, ExpiresIn * 1000} : Tick(d))
    \/ AnyoneIngestNext
    \/ ArtworksNext
    \/ ClientNext

Spec == Init /\ [][Next]_vars

(***************************************************************************)
(* The web client alone: the upload hook and the posting form, with the    *)
(* responses of the server and the bucket left open.                       *)
(***************************************************************************)
SpecClient == Init /\ [][ClientNext]_vars


(***************************************************************************)
(* Ticketing alone: /request-upload and the clock.                         *)
(***************************************************************************)
SpecRequest == Init /\ [][RequestNext]_vars

(***************************************************************************)
(* Ingestion alone: the uploads and /process-upload calls that follow two  *)
(* tickets issued at time 0, within the tickets' lifetime, the calls made   *)
(* by the user the tickets were issued to.                                 *)
(***************************************************************************)
IssuedAtStart ==
    << Ticket("u1", generateUploadUrl("a", "image/jpeg", "u1")),
       Ticket("u1", generateUploadUrl("a-thumb", "image/tiff", "u1")) >>

IngestInit ==
    /\ now = 0
    /\ tickets = IssuedAtStart
    /\ upReq = Exchange(tickets[Len(tickets)].uploadUrl.ContentType, 4000000, 200, 1)
    /\ storage = NoObjects
    /\ pc = [c \in Calls |-> "idle"]
    /\ fileKey = [c \in Calls |-> ""]
    /\ imageBuffer = [c \in Calls |-> None]
    /\ processed = [c \in Calls |-> None]
    /\ ops = [c \in Calls |-> <<>>]
    /\ resp = [c \in Calls |-> NoResponse]
    /\ finishedAt = [c \in Calls |-> 0]
    /\ artworks = {}
    /\ artResp = 0
    /\ artReq = NoRequest
    /\ caller = NoCaller
    /\ ClientInit

SpecIngest == IngestInit /\ [][IngestNext]_vars
(***************************************************************************)
(* Expiry: one /process-upload call, before or after the upload URLs have  *)
(* expired.                                                                *)
(***************************************************************************)
ExpiryNext ==
    \/ Tick(ExpiresIn * 1000 + 1)
    \/ \E i \in 1 .. MaxTickets, img \in Images : ClientPut(i, img)
    \/ ProcessUploadBy(1, Owner)

SpecExpiry == IngestInit /\ [][ExpiryNext]_vars

(***************************************************************************)
(* Posting: one upload, its /process-upload call, and POST /api/artworks.  *)
(***************************************************************************)
PostFlowNext ==
    \/ \E i \in 1 .. MaxTickets, img \in Images : ClientPut(i, img)
    \/ ProcessUploadBy(1, Owner)
    \/ PostNext

SpecPost == IngestInit /\ [][PostFlowNext]_vars

(***************************************************************************)
(* The artwork routes: records are created from one upload's result, then  *)
(* changed and removed.                                                    *)
(***************************************************************************)
ArtworksFlowNext ==
    \/ \E img \in Images : ClientPut(1, img)
    \/ ProcessUploadBy(1, Owner)
    \/ ArtworksNext

SpecArtworks == IngestInit /\ [][ArtworksFlowNext]_vars

(***************************************************************************)
(* Image processing: one /process-upload call on an uploaded object whose  *)
(* bytes range over AllImages.                                             *)
(***************************************************************************)
ImageInit ==
    /\ now = 0
    /\ tickets = <<Ticket("u1", generateUploadUrl("a", "image/jpeg", "u1"))>>
    /\ upReq = Exchange("image/jpeg", 4000000, 200, 1)
    /\ \E img \in AllImages : storage = (tickets[1].fileKey :> img)
    /\ pc = [c \in Calls |-> "idle"]
    /\ fileKey = [c \in Calls |-> ""]
    /\ imageBuffer = [c \in Calls |-> None]
    /\ processed = [c \in Calls |-> None]
    /\ ops = [c \in Calls |-> <<>>]
    /\ resp = [c \in Calls |-> NoResponse]
    /\ finishedAt = [c \in Calls |-> 0]
    /\ artworks = {}
    /\ artResp = 0
    /\ artReq = NoRequest
    /\ caller = NoCaller
    /\ ClientInit

SpecImage == ImageInit /\ [][ProcessUpload(1)]_vars
(***************************************************************************)
(* Properties.                                                             *)
(***************************************************************************)
\* The storage operations of a call that succeeded / failed, by kind.
PutsOk(c) == {ops[c][k].key : k \in {j \in 1 .. Len(ops[c]) : ops[c][j].op = "put" /\ ops[c][j].ok}}
PutFailed(c) == \E k \in 1 .. Len(ops[c]) : ops[c][k].op = "put" /\ ~ops[c][k].ok
Succeeded(c) == resp[c].status = 200

\* C1: a /request-upload whose declared content type is not one of the four
\* allowed types is answered with a rejection and makes no storage access; no
\* upload URL is ever signed for such a type.
C1_DisallowedTypeRejected ==
    /\ upReq.status # 0 /\ upReq.contentType \notin validTypes
          => upReq.status = 400 /\ upReq.accesses = 0
    /\ \A i \in 1 .. Len(tickets) : tickets[i].uploadUrl.ContentType \in validTypes

C1_Witness ==
    /\ upReq.contentType = "application/pdf"
    /\ upReq.fileSize <= MaxFileSize
    /\ upReq.status = 400
    /\ Len(tickets) = 1

\* C2 (as claimed): once validation has passed a buffer on, the buffer's true
\* format is one of jpeg, png, webp, tiff; any other buffer, a buffer without a
\* format included, is answered 400.
C2_OnlyAllowedFormatsPass ==
    \A c \in Calls :
        pc[c] \in {"process", "putThumb", "putMedium"} \/ (pc[c] = "done" /\ resp[c].status # 400)
            => imageBuffer[c] = None \/ imageBuffer[c].format \in validFormats

\* A JPEG, PNG, WebP or TIFF within the size and dimension limits.
WithinLimits(buf) ==
    /\ buf.format \in validFormats
    /\ buf.length <= MaxFileSize
    /\ buf.width \in 1 .. MaxDimension /\ buf.height \in 1 .. MaxDimension

C4_ThumbnailExact ==
    \A c \in Calls :
        Succeeded(c) =>
            LET t == storage[thumbnailKey(fileKey[c])]
            IN  t = processed[c].thumbnail /\ t.width = ThumbSize /\ t.height = ThumbSize

C4_Witness ==
    /\ Succeeded(1)
    /\ WithinLimits(imageBuffer[1])
    /\ imageBuffer[1].width < ThumbSize
    /\ imageBuffer[1].height > ThumbSize

\* C5: a call in which a derivative write failed has ended in a failure whose
\* body names no derivative; a body that names derivatives is sent only when
\* both derivatives were written.
C5_NoPartialResult ==
    \A c \in Calls :
        /\ PutFailed(c) => pc[c] = "done" /\ resp[c].status = 500 /\ resp[c].body = NoBody
        /\ resp[c].body # NoBody =>
              PutsOk(c) = {thumbnailKey(fileKey[c]), mediumKey(fileKey[c])}

C5_Witness ==
    \E c \in Calls :
        /\ PutFailed(c)
        /\ PutsOk(c) = {thumbnailKey(fileKey[c])}
        /\ thumbnailKey(fileKey[c]) \in DOMAIN storage
        /\ resp[c].status = 500

\* C6 (as claimed): when a derivative write fails after another derivative of
\* the call was written, the call issues a delete for every key it had written.
C6_CleanupAttempted ==
    \A c \in Calls :
        PutFailed(c) /\ pc[c] = "done" =>
            \A key \in PutsOk(c) :
                \E k \in 1 .. Len(ops[c]) : ops[c][k].op = "delete" /\ ops[c][k].key = key

C8_KeysUnique ==
    \A i, j \in 1 .. Len(tickets) : i # j => tickets[i].fileKey # tickets[j].fileKey

\* C9 (as claimed): no call for a ticketed key is answered 200 after the
\* ticket's expiry.
C9_NoSuccessAfterExpiry ==
    \A c \in Calls : \A i \in 1 .. Len(tickets) :
        Succeeded(c) /\ tickets[i].fileKey = fileKey[c]
            => finishedAt[c] <= tickets[i].uploadUrl.Expires

\* C10 (as claimed): every stored artwork's image, thumbnail and medium locators
\* are those of a body a successful /process-upload returned.
C10_ArtworkFromResult ==
    \A a \in artworks : \E b \in ReturnedBodies :
        /\ a.imageUrl = b.imageUrl
        /\ a.thumbnailUrl = b.thumbnailUrl
        /\ a.mediumUrl = b.mediumUrl

\* A call that has its buffer and is past the validation.
Validated(c) == imageBuffer[c] # None /\ pc[c] \notin {"idle", "download", "validate"}
\* A call that has issued no put, whatever the outcome.
NoPut(c) == \A k \in 1 .. Len(ops[c]) : ops[c][k].op # "put"
\* The two reasons validateImage gives for dimensions over the limit.
DimensionErrors == {"Image width exceeds 8000px", "Image height exceeds 8000px"}
\* A validated call that was rejected and went no further.
RejectedUnprocessed(c) ==
    /\ pc[c] = "done" /\ resp[c].status = 400 /\ resp[c].body = NoBody
    /\ processed[c] = None
    /\ NoPut(c)

\* C11 (as claimed): every fetched image wider or higher than 8000 px is answered
\* 400 with a dimension reason, with nothing generated and no put issued; an
\* image of at most 8000 px on both axes is never given a dimension reason.
C11_OverDimensionRejected ==
    \A c \in Calls :
        Validated(c) =>
            LET buf == imageBuffer[c]
            IN  /\ buf.width > 8000 \/ buf.height > 8000
                      => RejectedUnprocessed(c) /\ resp[c].error \in DimensionErrors
                /\ buf.width <= 8000 /\ buf.height <= 8000
                      => resp[c].error \notin DimensionErrors

\* C11 (amended): every fetched image wider or higher than 8000 px is answered
\* 400 with nothing generated and no put issued; the reason is a dimension
\* reason when the image is at most 50 MiB long, and the size reason when it is
\* longer.  An image of at most 8000 px on both axes is never given a dimension
\* reason.
C11_OverDimensionRejectedWithinSize ==
    \A c \in Calls :
        Validated(c) =>
            LET buf == imageBuffer[c]
            IN  /\ buf.width > 8000 \/ buf.height > 8000
                      => /\ RejectedUnprocessed(c)
                         /\ resp[c].error =
                               IF buf.length > 50 * 1024 * 1024 THEN "File size exceeds 50MB"
                               ELSE IF buf.width > 8000 THEN "Image width exceeds 8000px"
                               ELSE "Image height exceeds 8000px"
                /\ buf.width <= 8000 /\ buf.height <= 8000
                      => resp[c].error \notin DimensionErrors

C11_Witness ==
    /\ Validated(1)
    /\ imageBuffer[1].format = "png"
    /\ imageBuffer[1].width = 8001 /\ imageBuffer[1].height = 8000
    /\ imageBuffer[1].length <= MaxFileSize
    /\ resp[1] = Response(400, "Image width exceeds 8000px", NoBody)
    /\ Len(ops[1]) = 1

\* C12: a fetched object longer than 50 MiB is answered 400 with a reason, with
\* nothing generated and no put issued, although the upload URL was issued for a
\* declared size within the limit.
C12_ActualSizeChecked ==
    \A c \in Calls :
        /\ Validated(c)
        /\ imageBuffer[c].length > 50 * 1024 * 1024
        /\ upReq.status = 200 /\ upReq.fileSize <= 50 * 1024 * 1024
        => RejectedUnprocessed(c) /\ resp[c].error # ""

C12_Witness ==
    /\ Validated(1)
    /\ upReq.status = 200 /\ upReq.fileSize = 4000000
    /\ imageBuffer[1].format = "jpeg" /\ imageBuffer[1].intact
    /\ imageBuffer[1].width = 3000 /\ imageBuffer[1].height = 2000
    /\ imageBuffer[1].length = MaxFileSize + 1
    /\ resp[1] = Response(400, "File size exceeds 50MB", NoBody)
    /\ DOMAIN storage = {fileKey[1]}

\* C13: a /request-upload that declares more than 52,428,800 bytes is answered
\* 400 without an upload URL being signed; one that declares exactly 52,428,800
\* bytes and an allowed content type is answered 200 with an upload URL.
C13_DeclaredSizeCeiling ==
    upReq.status # 0 =>
        /\ upReq.fileSize > 52428800 => upReq.status = 400 /\ upReq.accesses = 0
        /\ upReq.fileSize = 52428800 /\ upReq.contentType \in validTypes
              => /\ upReq.status = 200 /\ upReq.accesses = 1
                 /\ tickets # <<>>
                 /\ tickets[Len(tickets)].uploadUrl.ContentType = upReq.contentType

C13_Witness ==
    /\ upReq.fileSize = MaxFileSize + 1
    /\ upReq.contentType = "image/tiff"
    /\ upReq.status = 400 /\ upReq.accesses = 0
    /\ tickets = <<>>

\* C14 (as claimed): the medium preview of a success has the source's own width
\* and height when the source is at most 1200 px wide; otherwise it is 1200 px
\* wide and its height is the source height times 1200 / width, rounded.  A
\* 3000x2000 source gives 1200x800, and the result reports 3000 and 2000.
C14_MediumScaledRounded ==
    \A c \in Calls :
        Succeeded(c) /\ WithinLimits(imageBuffer[c]) =>
            LET m == processed[c].medium
                src == imageBuffer[c]
                diff == m.height * src.width - src.height * 1200
            IN  /\ src.width <= 1200 => m.width = src.width /\ m.height = src.height
                /\ src.width > 1200 =>
                      /\ m.width = 1200
                      /\ 2 * (IF diff >= 0 THEN diff ELSE 0 - diff) <= src.width
                /\ src.width = 3000 /\ src.height = 2000 =>
                      /\ m.width = 1200 /\ m.height = 800
                      /\ resp[c].body.width = 3000 /\ resp[c].body.height = 2000

\* C14 (amended): as claimed, except that the height is never less than 1 px: a
\* source so flat that the scaled height rounds to 0 gets a medium preview 1 px
\* high.
C14_MediumScaledRoundedAtLeastOne ==
    \A c \in Calls :
        Succeeded(c) =>
            LET m == processed[c].medium
                src == imageBuffer[c]
                diff == m.height * src.width - src.height * 1200
            IN  /\ m = storage[mediumKey(fileKey[c])]
                /\ src.width <= 1200 => m.width = src.width /\ m.height = src.height
                /\ src.width > 1200 =>
                      /\ m.width = 1200
                      /\ \/ 2 * (IF diff >= 0 THEN diff ELSE 0 - diff) <= src.width
                         \/ m.height = 1 /\ 2 * src.height * 1200 < src.width
                /\ src.width = 3000 /\ src.height = 2000 =>
                      /\ m.width = 1200 /\ m.height = 800
                      /\ resp[c].body.width = 3000 /\ resp[c].body.height = 2000

C14_Witness ==
    /\ Succeeded(1)
    /\ WithinLimits(imageBuffer[1])
    /\ imageBuffer[1].width = 3000 /\ imageBuffer[1].height = 2000
    /\ processed[1].medium.width = 1200 /\ processed[1].medium.height = 800
    /\ resp[1].body.width = 3000 /\ resp[1].body.height = 2000

\* The derivative keys of a source key.
DerivativeKeys(key) == {thumbnailKey(key), mediumKey(key)}

\* C15: every put of a call goes to the thumbnail key or the medium key of the
\* call's source key; the two differ from each other and from the source key,
\* and the derivative keys of two different source keys have no key in common.
C15_DerivativeKeysDistinct ==
    \A c1 \in Calls :
        fileKey[c1] # "" =>
            LET thumb1 == thumbnailKey(fileKey[c1])
                medium1 == mediumKey(fileKey[c1])
            IN  /\ \A k \in 1 .. Len(ops[c1]) :
                      ops[c1][k].op = "put" => ops[c1][k].key \in {thumb1, medium1}
                /\ thumb1 # medium1
                /\ fileKey[c1] \notin {thumb1, medium1}
                /\ \A c2 \in Calls :
                      c2 > c1 /\ fileKey[c2] \notin {"", fileKey[c1]} =>
                          {thumb1, medium1} \cap DerivativeKeys(fileKey[c2]) = {}

C15_Witness ==
    \E c1, c2 \in Calls :
        /\ fileKey[c1] # fileKey[c2]
        /\ Succeeded(c1) /\ Succeeded(c2)
        /\ PutsOk(c1) = DerivativeKeys(fileKey[c1])
        /\ PutsOk(c2) = DerivativeKeys(fileKey[c2])

\* The fields of the JSON a failure response carries: c.json({ error }, 400) for
\* a failed validation, none for the framework's plain-text 500.
FailureFields(r) == IF r.status = 400 THEN {"error"} ELSE {}

\* C16 (as claimed): every call that ends without a 200 is answered by the
\* handler with a failure that names a stage and gives a reason.
C16_FailureTagged ==
    \A c \in Calls :
        pc[c] = "done" /\ ~Succeeded(c) =>
            /\ "stage" \in FailureFields(resp[c])
            /\ "error" \in FailureFields(resp[c]) /\ resp[c].error # ""

\* C17: the uploads are reached only with a result that holds the thumbnail,
\* the medium size and the blur hash together; a call whose processImage
\* rejected holds no result, has issued no put and is answered with a failure.
C17_GenerationAtomic ==
    \A c \in Calls :
        /\ pc[c] \in {"putThumb", "putMedium"} \/ ~NoPut(c) =>
              /\ processed[c] # None
              /\ DOMAIN processed[c] = {"original", "thumbnail", "medium", "blurHash"}
        /\ Validated(c) /\ validateImage(imageBuffer[c]).valid
              /\ pc[c] = "done" /\ processed[c] = None =>
              /\ resp[c] = InternalServerError
              /\ NoPut(c)

C17_Witness ==
    /\ Validated(1)
    /\ imageBuffer[1].format = "jpeg" /\ ~imageBuffer[1].intact
    /\ validateImage(imageBuffer[1]).valid
    /\ pc[1] = "done" /\ processed[1] = None
    /\ resp[1] = InternalServerError
    /\ Len(ops[1]) = 1 /\ DOMAIN storage = {fileKey[1]}

\* C18: for every upload URL issued, the storage grant ends 300 seconds (5
\* minutes) after the issue, whoever asked and whatever was declared, and the
\* expiresIn of the response is that same lifetime.
C18_FixedLifetime ==
    \A i \in 1 .. Len(tickets) :
        /\ tickets[i].uploadUrl.Expires - tickets[i].issuedAt = 5 * 60 * 1000
        /\ tickets[i].expiresIn * 1000 = tickets[i].uploadUrl.Expires - tickets[i].issuedAt

C18_Witness ==
    /\ Len(tickets) = 2
    /\ tickets[1].owner # tickets[2].owner
    /\ tickets[1].issuedAt # tickets[2].issuedAt
    /\ tickets[1].uploadUrl.ContentType # tickets[2].uploadUrl.ContentType
    /\ tickets[1].fileKey # tickets[2].fileKey

\* C19: no step of a call issues a put or a delete on the call's own fileKey,
\* and every step of a call leaves the object stored under that key as it was.
C19_SourceUntouched ==
    [][ \A c \in Calls :
            pc'[c] # pc[c] =>
                LET key == fileKey'[c]
                IN  /\ \A k \in 1 .. Len(ops'[c]) :
                          ops'[c][k].op \in {"put", "delete"} => ops'[c][k].key # key
                    /\ key \in DOMAIN storage =>
                          key \in DOMAIN storage' /\ storage'[key] = storage[key] ]_vars

C19_Witness ==
    \E c \in Calls :
        /\ Succeeded(c)
        /\ PutsOk(c) = DerivativeKeys(fileKey[c])
        /\ storage[fileKey[c]] = imageBuffer[c]
        /\ \E d \in Calls : PutFailed(d) /\ fileKey[d] = fileKey[c]

\* C20: a call is at processImage or beyond only with a fetched buffer that
\* validateImage found valid; it issues a put only once it holds the processed
\* result; its storage operations are one successful get followed by puts only;
\* and a call whose buffer is not valid is answered 400 with nothing generated
\* and no put issued.
C20_StagesInOrder ==
    \A c \in Calls :
        /\ pc[c] \in {"process", "putThumb", "putMedium"} \/ processed[c] # None =>
              imageBuffer[c] # None /\ validateImage(imageBuffer[c]).valid
        /\ pc[c] \in {"idle", "download", "validate", "process"} => processed[c] = None /\ NoPut(c)
        /\ ~NoPut(c) => processed[c] # None
        /\ imageBuffer[c] # None => Len(ops[c]) >= 1 /\ ops[c][1] = StorageOp("get", fileKey[c], TRUE)
        /\ \A k \in 2 .. Len(ops[c]) : ops[c][k].op = "put"
        /\ \A k \in 1 .. Len(ops[c]) :
              ops[c][k].key = mediumKey(fileKey[c]) =>
                  k = 3 /\ ops[c][2] = StorageOp("put", thumbnailKey(fileKey[c]), TRUE)
        /\ Validated(c) /\ ~validateImage(imageBuffer[c]).valid => RejectedUnprocessed(c)

C20_Witness ==
    /\ Succeeded(1)
    /\ ops[1] = << StorageOp("get", fileKey[1], TRUE),
                   StorageOp("put", thumbnailKey(fileKey[1]), TRUE),
                   StorageOp("put", mediumKey(fileKey[1]), TRUE) >>
    /\ validateImage(imageBuffer[1]).valid
    /\ processed[1] \in processImage(imageBuffer[1])

\* The position of a stage in the handler's code.
StageRank(stage) ==
    CASE stage = "idle"      -> 0
      [] stage = "download"  -> 1
      [] stage = "validate"  -> 2
      [] stage = "process"   -> 3
      [] stage = "putThumb"  -> 4
      [] stage = "putMedium" -> 5
      [] stage = "done"      -> 6

\* The storage operations of call c on key.
OpsOn(log, op, key) == {k \in 1 .. Len(log) : log[k].op = op /\ log[k].key = key}

\* C21: in every step of a /process-upload call the stage moves forward or the
\* call does nothing at all (so the download, the validation, the processing and
\* each put are executed at most once); the call issues at most one get and at
\* most one put per key; and once the call has answered, with success or with a
\* failure, its stage, its answer and its storage operations never change.
C21_OneWayNoRetry ==
    [][\A c \in Calls :
          /\ StageRank(pc'[c]) >= StageRank(pc[c])
          /\ pc'[c] = pc[c] =>
                /\ ops'[c] = ops[c] /\ resp'[c] = resp[c]
                /\ imageBuffer'[c] = imageBuffer[c] /\ processed'[c] = processed[c]
          /\ pc[c] = "done" => pc'[c] = "done"
          /\ \A k \in 1 .. Len(ops'[c]) :
                Cardinality(OpsOn(ops'[c], ops'[c][k].op, ops'[c][k].key)) = 1
          /\ Len(ops'[c]) <= 3]_vars

C21_Witness ==
    /\ pc[1] = "done"
    /\ resp[1] = InternalServerError
    /\ ops[1] = << StorageOp("get", fileKey[1], TRUE),
                   StorageOp("put", thumbnailKey(fileKey[1]), FALSE) >>
    /\ thumbnailKey(fileKey[1]) \notin DOMAIN storage


\* C22: a call's request sets its key and nothing else; the call's buffer is
\* set only by its download, to the bytes stored under the key at that moment;
\* the validation answer and the processed result are computed from that same
\* buffer and the buffer is not replaced afterwards, whatever is uploaded under
\* the key in the meantime.
C22_FetchedBytesOnly ==
    [][\A c \in Calls :
          /\ fileKey'[c] # fileKey[c] =>
                pc[c] = "idle" /\ imageBuffer'[c] = None /\ processed'[c] = None
          /\ imageBuffer'[c] # imageBuffer[c] =>
                /\ pc[c] = "download" /\ imageBuffer[c] = None
                /\ fileKey[c] \in DOMAIN storage
                /\ imageBuffer'[c] = storage[fileKey[c]]
          /\ processed'[c] # processed[c] =>
                /\ imageBuffer[c] # None
                /\ processed'[c] \in processImage(imageBuffer[c])
          /\ resp'[c] # resp[c] /\ resp'[c].status = 400 =>
                /\ imageBuffer[c] # None
                /\ resp'[c].error = validateImage(imageBuffer[c]).error
          /\ resp'[c] # resp[c] /\ resp'[c].status = 200 =>
                resp'[c].body = ResultBody(fileKey[c], processed[c])]_vars

C22_Witness ==
    /\ Succeeded(1)
    /\ storage[fileKey[1]] # imageBuffer[1]
    /\ processed[1] \in processImage(imageBuffer[1])
    /\ resp[1].body.width = imageBuffer[1].width


\* C23: a call answers 200 only when both of its puts have been issued and have
\* succeeded, so that both derivatives are stored; while a put is still to be
\* issued or awaited the call has not answered; and a call with a failed put
\* never answers 200.
C23_CompleteAfterAllWrites ==
    \A c \in Calls :
        /\ Succeeded(c) =>
              /\ pc[c] = "done"
              /\ ~PutFailed(c)
              /\ PutsOk(c) = DerivativeKeys(fileKey[c])
              /\ DerivativeKeys(fileKey[c]) \subseteq DOMAIN storage
        /\ pc[c] \in {"putThumb", "putMedium"} => resp[c] = NoResponse
        /\ PutFailed(c) => pc[c] = "done" /\ resp[c] = InternalServerError

C23_Witness ==
    /\ pc[1] = "done"
    /\ PutsOk(1) = {thumbnailKey(fileKey[1])}
    /\ ops[1][3] = StorageOp("put", mediumKey(fileKey[1]), FALSE)
    /\ resp[1] = InternalServerError
    /\ mediumKey(fileKey[1]) \notin DOMAIN storage


\* The keys call c has issued a put for.
PutKeys(c) == {ops[c][k].key : k \in {j \in 1 .. Len(ops[c]) : ops[c][j].op = "put"}}

\* C24 (as claimed): of two calls on different keys, neither issues a put for
\* the key the other reads or for a key the other puts.
C24_DistinctKeysIndependent ==
    \A c1 \in Calls : \A c2 \in Calls \ {c1} :
        fileKey[c1] # "" /\ fileKey[c2] # "" /\ fileKey[c1] # fileKey[c2]
            => PutKeys(c1) \cap ({fileKey[c2]} \cup PutKeys(c2)) = {}

\* C25 (as claimed): no upload is issued whose key is the thumbnail key or the
\* medium key of another issued upload.
C25_NoTicketOnDerivativeKey ==
    \A i \in 1 .. Len(tickets) : \A j \in 1 .. Len(tickets) :
        i # j => tickets[j].fileKey \notin DerivativeKeys(tickets[i].fileKey)

\* C26 (as claimed): a call that has issued a put was made by the user the
\* call's key was issued to.
C26_OwnObjectsOnly ==
    \A c \in Calls :
        ~NoPut(c) =>
            \E i \in 1 .. Len(tickets) :
                tickets[i].fileKey = fileKey[c] /\ tickets[i].owner = caller[c]


\* C27: when a call's download finds no object under the call's key, that same
\* step ends the call with a failure answer, leaves storage as it is and issues
\* no put; and a call whose get failed has made that get and nothing else.
C27_MissingObjectFails ==
    [][\A c \in Calls :
          /\ pc[c] = "download" /\ pc'[c] # "download" /\ fileKey[c] \notin DOMAIN storage =>
                /\ pc'[c] = "done"
                /\ resp'[c].status \notin {0, 200}
                /\ storage' = storage
                /\ ops'[c] = <<StorageOp("get", fileKey[c], FALSE)>>
          /\ Len(ops[c]) >= 1 /\ ~ops[c][1].ok =>
                /\ pc[c] = "done" /\ ops'[c] = ops[c] /\ resp'[c] = resp[c]
                /\ Len(ops[c]) = 1 /\ imageBuffer[c] = None /\ processed[c] = None]_vars

C27_Witness ==
    /\ fileKey[1] = tickets[1].fileKey
    /\ fileKey[1] \notin DOMAIN storage
    /\ storage = NoObjects
    /\ ops[1] = <<StorageOp("get", fileKey[1], FALSE)>>
    /\ pc[1] = "done"
    /\ resp[1].status = 500


\* C28: the hook's requests are, in this order, request-upload, the PUT and
\* process-upload; a request is sent only after the one before it was answered
\* ok; uploadImage has returned a result only after all three were answered ok;
\* isUploading is true exactly while a request is awaited, so it is false again
\* once uploadImage has settled, with a result or with null.
C28_StepsInOrderStopAtFailure ==
    /\ Len(hook.log) <= 3
    /\ \A k \in 1 .. Len(hook.log) : hook.log[k].request = HookRequests[k]
    /\ \A k \in 2 .. Len(hook.log) : hook.log[k - 1].outcome = "ok"
    /\ hook.returned # None =>
          Len(hook.log) = 3 /\ \A k \in 1 .. 3 : hook.log[k].outcome = "ok"
    /\ hook.at = 0 =>
          /\ ~hook.isUploading
          /\ \A k \in 1 .. Len(hook.log) : hook.log[k].outcome # "pending"
    /\ hook.at # 0 =>
          /\ hook.isUploading /\ hook.returned = None
          /\ Len(hook.log) = hook.at /\ hook.log[hook.at].outcome = "pending"

C28_Witness ==
    /\ hook.at = 0 /\ hook.calls = 1
    /\ ~hook.isUploading
    /\ hook.returned = None
    /\ Len(hook.log) = 2
    /\ hook.log[1] = [request |-> "request-upload", outcome |-> "ok"]
    /\ hook.log[2] = [request |-> "put", outcome |-> "notOk"]

\* C29: at step 2 and at step 3 the form holds an upload result, and the result
\* it holds is one uploadImage returned; every create-artwork request was sent
\* from step 3 with a result held and its body has that result's imageUrl,
\* thumbnailUrl, mediumUrl, width and height.
C29_ResultHeldPastStepOne ==
    /\ form.step \in {1, 2, 3}
    /\ form.step \in {2, 3} => form.uploadedImage # None
    /\ form.uploadedImage # None => form.uploadedImage \in UploadResults
    /\ \A k \in 1 .. Len(posts) :
          /\ posts[k].step = 3
          /\ posts[k].uploadedImage # None
          /\ \A field \in {"imageUrl", "thumbnailUrl", "mediumUrl", "width", "height"} :
                posts[k].body[field] = posts[k].uploadedImage[field]

C29_Witness ==
    /\ Len(posts) = 1
    /\ posts[1].body.title = "Dusk"
    /\ form.step = 1
    /\ form.uploadedImage = posts[1].uploadedImage
    /\ hook.calls = 2
    /\ hook.at = 0 /\ hook.returned = None


\* C30: a stored artwork is changed or removed only in a step that serves a
\* PATCH or a DELETE of that artwork by its own artist, answered 200; a PATCH or
\* DELETE that names no stored artwork is answered 404 and one by a user other
\* than the artist 403, both leaving the stored artworks as they were; and a
\* record keeps its artistId for as long as it is stored.
C30_OnlyOwnArtistWrites ==
    [][/\ \A a \in artworks :
             a \notin artworks' =>
                /\ artReq' \in {ArtworkRequest("PATCH", a.artistId, a.id),
                                ArtworkRequest("DELETE", a.artistId, a.id)}
                /\ artResp' = 200
       /\ \A a \in artworks : \A b \in artworks' : b.id = a.id => b.artistId = a.artistId
       /\ artReq'.method \in {"PATCH", "DELETE"} /\ <<artworks, artResp, artReq>>' # <<artworks, artResp, artReq>> =>
             /\ findUnique(artReq'.id) = {} => artResp' = 404 /\ artworks' = artworks
             /\ \A a \in findUnique(artReq'.id) :
                   a.artistId # artReq'.userId => artResp' = 403 /\ artworks' = artworks
             /\ artReq'.method = "DELETE" /\ artResp' = 200 =>
                   artworks' = artworks \ findUnique(artReq'.id)]_vars

C30_Witness ==
    /\ artReq = ArtworkRequest("PATCH", "u2", 1)
    /\ artResp = 403
    /\ \E a \in artworks : 
          /\ a.id = 1 /\ a.artistId = "u1"
          /\ a.imageUrl = getPublicUrl(tickets[1].fileKey)
          /\ a.width = 2 /\ a.height = 2000

====
